---- MODULE Spec2Model ----
(***************************************************************************)
(* A model of the GraphQL lexer (package lexer: Lexer.Next and readToken)  *)
(* and of the recursive-descent parser that drives it (package parser:     *)
(* Parse).  The source text is a sequence of bytes; the lexer is modelled  *)
(* at the grain of one loop iteration per step, so that a loop that stops  *)
(* consuming input shows up as a behaviour of the model.                    *)
(***************************************************************************)
EXTENDS Integers, Sequences, FiniteSets, TLC

VARIABLES
  source,        \* Lexer.source, as bytes
  currPos,       \* Lexer.currPos, a byte offset
  Token,         \* Lexer.Token, the current token
  pc,            \* position inside Lexer.Next / readToken ("idle": not running)
  token,         \* Next's local `token` (the value readToken returned)
  start,         \* readToken's local `start`
  code,          \* local `code` of readNumber / readString
  size,          \* local `size` of readNumber / readString
  val,           \* readString's local `val`
  isFloat,       \* readNumber's local `isFloat`
  nextRet,       \* the value the last call of Next returned
  returned,      \* history: the non-nil tokens Next has returned, in order
  fate,          \* "run", or how the process ended: "fatal" (log.Fatal), "panic"
  ctl,           \* position of the caller of Next (a client loop, or the parser)
  pending,       \* sources still to be lexed by a fresh Lexer
  prevReturned,  \* history: `returned` of the previous Lexer
  definitions,   \* parseDocument's local `definitions`
  opType,        \* parserOperatonDefinition's local `opType`
  name,          \* parserOperatonDefinition's local `name` (its value)
  variableDefinitions,  \* parseVariableDefinitions' local `definitions`
  nameToken,     \* parseVariableDefinition's local `nameToken`
  typeToken,     \* parseVariableDefinition's local `typeToken`
  defaultValue,  \* parseVariableDefinition's local `defaultValue`
  typ,           \* the address of parseInputType's local `typ`
  typeVal,       \* parseInputType's local `val` (its Value)
  heap,          \* the GraphQLType variables whose address may be taken
  document,      \* the GraphQLDocument Parse returned
  unhexArg,      \* the byte unhex is called with
  unhexRet       \* the (v, ok) unhex returned

lexerVars == <<source, currPos, Token>>
frame == <<start, code, size, val, isFloat>>
callVars == <<nextRet, returned>>
parserVars == <<definitions, opType, name, variableDefinitions, nameToken,
                typeToken, defaultValue, typ, typeVal, heap, document>>
hexVars == <<unhexArg, unhexRet>>
clientVars == <<ctl, pending, prevReturned, parserVars, hexVars>>
vars == <<source, currPos, Token, pc, token, start, code, size, val, isFloat,
          nextRet, returned, fate, ctl, pending, prevReturned, parserVars,
          hexVars>>

(***************************************************************************)
(* Bytes and text.                                                         *)
(***************************************************************************)
Ascii == <<" ","!","\"","#","$","%","&","'","(",")","*","+",",","-",".","/",
           "0","1","2","3","4","5","6","7","8","9",":",";","<","=",">","?",
           "@","A","B","C","D","E","F","G","H","I","J","K","L","M","N","O",
           "P","Q","R","S","T","U","V","W","X","Y","Z","[","\\","]","^","_",
           "grave","a","b","c","d","e","f","g","h","i","j","k","l","m","n","o",
           "p","q","r","s","t","u","v","w","x","y","z","{","|","}","~">>

\* The byte of a printable ASCII character, as Go's rune literal 'c' (the
\* grave accent, byte 96, is spelled out: it is used nowhere).
OrdTable ==
  [c \in {Ascii[i] : i \in 1..Len(Ascii)} |->
     31 + (CHOOSE i \in 1..Len(Ascii) : Ascii[i] = c)]

Ord(c) == OrdTable[c]

\* The bytes of a Go string literal made of printable ASCII characters.
Str(cs) == [i \in 1..Len(cs) |-> Ord(cs[i])]

RECURSIVE Concat(_)
Concat(ss) == IF ss = <<>> THEN <<>> ELSE Head(ss) \o Concat(Tail(ss))

\* s[from:to] of Go, 0-based, defined when from <= to <= len(s).
Slice(s, from, to) == SubSeq(s, from + 1, to)

\* strings.HasPrefix(s[from:], prefix)
HasPrefix(s, from, prefix) ==
  /\ from + Len(prefix) <= Len(s)
  /\ Slice(s, from, from + Len(prefix)) = prefix

RuneError == 65533

\* utf8.DecodeRuneInString(s[pos:]), defined when pos <= len(s): the first
\* scalar value and its width; (RuneError, 0) on empty input and
\* (RuneError, 1) on an invalid or truncated encoding.
DecodeRuneInString(s, pos) ==
  LET n == Len(s) - pos
      b0 == s[pos + 1]
      b1 == s[pos + 2]
      b2 == s[pos + 3]
      b3 == s[pos + 4]
      bad == [code |-> RuneError, size |-> 1]
      cont(b) == b >= 128 /\ b <= 191
      lo == IF b0 = 224 THEN 160 ELSE IF b0 = 240 THEN 144 ELSE 128
      hi == IF b0 = 237 THEN 159 ELSE IF b0 = 244 THEN 143 ELSE 191
  IN  IF n <= 0 THEN [code |-> RuneError, size |-> 0]
      ELSE IF b0 < 128 THEN [code |-> b0, size |-> 1]
      ELSE IF b0 < 194 \/ b0 > 244 THEN bad
      ELSE IF b0 < 224 THEN
             IF n >= 2 /\ cont(b1)
             THEN [code |-> (b0 - 192) * 64 + (b1 - 128), size |-> 2]
             ELSE bad
      ELSE IF b0 < 240 THEN
             IF n >= 3 /\ b1 >= lo /\ b1 <= hi /\ cont(b2)
             THEN [code |-> (b0 - 224) * 4096 + (b1 - 128) * 64 + (b2 - 128),
                   size |-> 3]
             ELSE bad
      ELSE   IF n >= 4 /\ b1 >= lo /\ b1 <= hi /\ cont(b2) /\ cont(b3)
             THEN [code |-> (b0 - 240) * 262144 + (b1 - 128) * 4096
                              + (b2 - 128) * 64 + (b3 - 128),
                   size |-> 4]
             ELSE bad

\* string(r) of Go for a rune r: its UTF-8 encoding, U+FFFD for a surrogate
\* or an out-of-range value.
EncodeRune(r) ==
  IF r < 0 \/ r > 1114111 \/ (r >= 55296 /\ r <= 57343) THEN <<239, 191, 189>>
  ELSE IF r < 128 THEN <<r>>
  ELSE IF r < 2048 THEN <<192 + (r \div 64), 128 + (r % 64)>>
  ELSE IF r < 65536 THEN
    <<224 + (r \div 4096), 128 + ((r \div 64) % 64), 128 + (r % 64)>>
  ELSE <<240 + (r \div 262144), 128 + ((r \div 4096) % 64),
         128 + ((r \div 64) % 64), 128 + (r % 64)>>

HexDigit(d) == IF d < 10 THEN 48 + d ELSE 55 + d

RECURSIVE HexDigits(_)
HexDigits(n) ==
  IF n < 16 THEN <<HexDigit(n)>> ELSE HexDigits(n \div 16) \o <<HexDigit(n % 16)>>

\* fmt's %U verb: "U+" and at least four upper-case hexadecimal digits.
FormatU(r) ==
  LET h == HexDigits(r)
      pad == [i \in 1..(IF Len(h) < 4 THEN 4 - Len(h) ELSE 0) |-> 48]
  IN  Str(<<"U","+">>) \o pad \o h

(***************************************************************************)
(* Tokens.                                                                 *)
(***************************************************************************)
\* Token{Kind, Value, Pos}; Kind is written by its String() name.
newToken(kind, pos, value) == [Kind |-> kind, Value |-> value, Pos |-> pos]

\* A nil *Token.
NilToken == [Kind |-> "nil", Value |-> <<>>, Pos |-> 0]

\* The single-character punctuators of readToken's switch.
Punctuator ==
  (Ord("{") :> "BRACE_L") @@ (Ord("}") :> "BRACE_R") @@ (Ord("!") :> "BANG")
  @@ (Ord("$") :> "DOLLAR") @@ (Ord("(") :> "PAREN_L") @@ (Ord(")") :> "PAREN_R")
  @@ (Ord(":") :> "COLON") @@ (Ord("=") :> "EQUALS") @@ (Ord("@") :> "AT")
  @@ (Ord("[") :> "BRACKET_L") @@ (Ord("]") :> "BRACKET_R") @@ (Ord("|") :> "PIPE")

\* IsDigit with the lower comparison made strict: 0 is no digit.
IsDigit_strict(c) == c > Ord("0") /\ c <= Ord("9")

IsDigit(c) == c >= Ord("0") /\ c <= Ord("9")

IsNameStart(c) ==
  \/ c = Ord("_")
  \/ (c >= Ord("A") /\ c <= Ord("Z"))
  \/ (c >= Ord("a") /\ c <= Ord("z"))

IsNameChar(c) == IsNameStart(c) \/ IsDigit(c)

\* horizontal tab, space, new line, carriage return, comma, BOM
IsSeparator(c) == c \in {9, 32, 10, 13, Ord(","), 65279}

\* the characters readComment consumes
IsCommentChar(c) == c >= 32 \/ c = 9

\* the characters readString copies verbatim
IsStringChar(c) ==
  /\ (c >= 32 /\ c <= 65535) \/ c = 9
  /\ c # Ord("\"")
  /\ c # Ord("\\")
  /\ c # 10
  /\ c # 13

\* the characters log.Fatalf rejects
IsInvalidControl(c) == c < 32 /\ c # 9 /\ c # 10 /\ c # 13

MsgInvalidChar(c) ==
  Str(<<"I","n","v","a","l","i","d"," ","c","h","a","r","a","c","t">>)
  \o <<195, 168>>
  \o Str(<<"r","e"," ","c","o","d","e"," ","'">>) \o EncodeRune(c) \o Str(<<"'">>)

MsgDigitAfterZero(c) ==
  Str(<<"I","n","v","a","l","i","d"," ","n","u","m","b","e","r",","," ",
        "u","n","e","x","p","e","c","t","e","d"," ","d","i","g","i","t"," ",
        "a","f","t","e","r"," ","0",":"," ">>) \o EncodeRune(c)

MsgInvalidEscape ==
  Str(<<"I","n","v","a","l","i","d"," ","e","s","c","a","p","e"," ",
        "s","e","q","u","e","n","c","e">>)

MsgInvalidEnd(c) ==
  Str(<<"I","n","v","a","l","i","d"," ","e","n","d"," ","o","f"," ",
        "s","t","r","i","n","g"," ">>) \o FormatU(c)

\* unhex without the case of the capital letters.
unhex_noCapitals(b) ==
  IF Ord("0") <= b /\ b <= Ord("9") THEN [v |-> b - Ord("0"), ok |-> TRUE]
  ELSE IF Ord("a") <= b /\ b <= Ord("f") THEN [v |-> b - Ord("a") + 10, ok |-> TRUE]
  ELSE [v |-> 0, ok |-> FALSE]

\* unhex: the value of a hexadecimal digit, ok = FALSE for any other byte.
unhex(b) ==
  IF Ord("0") <= b /\ b <= Ord("9") THEN [v |-> b - Ord("0"), ok |-> TRUE]
  ELSE IF Ord("a") <= b /\ b <= Ord("f") THEN [v |-> b - Ord("a") + 10, ok |-> TRUE]
  ELSE IF Ord("A") <= b /\ b <= Ord("F") THEN [v |-> b - Ord("A") + 10, ok |-> TRUE]
  ELSE [v |-> 0, ok |-> FALSE]

\* unicodeToChar(s): the loop over s[0..3].  res is "ok" (with the string of
\* the decoded value), "err" (a byte that is no hexadecimal digit), or
\* "panic" (s[j] indexed past the end of s).
RECURSIVE unicodeToCharFrom(_, _, _)
unicodeToCharFrom(s, j, v) ==
  IF j = 4 THEN [res |-> "ok", str |-> EncodeRune(v)]
  ELSE IF j >= Len(s) THEN [res |-> "panic", str |-> <<>>]
  ELSE IF ~unhex(s[j + 1]).ok THEN [res |-> "err", str |-> <<>>]
  ELSE unicodeToCharFrom(s, j + 1, v * 16 + unhex(s[j + 1]).v)

unicodeToChar(s) == unicodeToCharFrom(s, 0, 0)

(***************************************************************************)
(* The lexer.  Each action is one iteration of a loop of the code, or the  *)
(* straight-line code between two loops.                                   *)
(***************************************************************************)
\* The longest `val` the model follows readString to.
MaxValLen == 14

\* A function of the lexer returns t to Next: its locals are dropped.
Return(t) ==
  /\ token' = t
  /\ pc' = "Next_assign"
  /\ start' = 0 /\ code' = 0 /\ size' = 0 /\ val' = <<>> /\ isFloat' = FALSE

\* A run-time panic (an index or a slice bound out of range): the process ends.
Panic(pos) ==
  /\ fate' = "panic"
  /\ pc' = "halt"
  /\ currPos' = pos
  /\ UNCHANGED <<token, frame>>

\* Next, on entry: an EOF current token ends it with a nil result.
Next_enter ==
  /\ pc = "Next"
  /\ token' = NilToken
  /\ IF Token.Kind # "EOF"
     THEN /\ pc' = "positionAfterWhitespace"
          /\ UNCHANGED nextRet
     ELSE /\ pc' = "idle"
          /\ nextRet' = NilToken
  /\ UNCHANGED <<lexerVars, frame, returned, fate, clientVars>>

\* Next_assign without the test for a comment: every token ends the loop.
Next_assign_anyToken ==
  /\ pc = "Next_assign"
  /\ Token' = token
  /\ pc' = "idle"
  /\ nextRet' = token
  /\ returned' = Append(returned, token)
  /\ UNCHANGED <<source, currPos, token, frame, fate, clientVars>>

\* Next, after readToken returned: the token becomes the current token, and
\* a comment makes the loop read again.
Next_assign ==
  /\ pc = "Next_assign"
  /\ Token' = token
  /\ IF token.Kind # "COMMENT"
     THEN /\ pc' = "idle"
          /\ nextRet' = token
          /\ returned' = Append(returned, token)
     ELSE /\ pc' = "positionAfterWhitespace"
          /\ UNCHANGED <<nextRet, returned>>
  /\ UNCHANGED <<source, currPos, token, frame, fate, clientVars>>

\* One iteration of positionAfterWhitespace's loop.
positionAfterWhitespace ==
  /\ pc = "positionAfterWhitespace"
  /\ LET d == DecodeRuneInString(source, currPos) IN
       IF IsSeparator(d.code)
       THEN /\ currPos' = currPos + d.size
            /\ pc' = pc
       ELSE /\ currPos' = currPos
            /\ pc' = "readToken"
  /\ UNCHANGED <<source, Token, token, frame, callVars, fate, clientVars>>

\* readToken after the separators: the dispatch on the first character.
readToken ==
  /\ pc = "readToken"
  /\ IF currPos >= Len(source)
     THEN /\ Return(newToken("EOF", currPos, <<>>))
          /\ UNCHANGED <<currPos, fate>>
     ELSE
       LET d == DecodeRuneInString(source, currPos)
           c == d.code
           goto(p) == /\ pc' = p
                      /\ start' = currPos
                      /\ code' = c
                      /\ UNCHANGED <<token, size, val, isFloat, fate>>
       IN
         IF IsInvalidControl(c)
         THEN /\ currPos' = currPos + d.size
              /\ fate' = "fatal"
              /\ pc' = "halt"
              /\ UNCHANGED <<token, frame>>
         ELSE IF c = Ord("#")
         THEN currPos' = currPos + d.size /\ goto("readComment")
         ELSE IF c \in DOMAIN Punctuator
         THEN /\ currPos' = currPos + d.size
              /\ Return(newToken(Punctuator[c], currPos, <<>>))
              /\ UNCHANGED fate
         ELSE IF HasPrefix(source, currPos, Str(<<".",".",".">>))
         THEN /\ currPos' = currPos + 3
              /\ Return(newToken("SPREAD", currPos, <<>>))
              /\ UNCHANGED fate
         ELSE IF IsNameStart(c)
         THEN currPos' = currPos + d.size /\ goto("readName")
         ELSE IF IsDigit(c) \/ c = Ord("-")
         THEN currPos' = currPos + d.size /\ goto("readNumber")
         ELSE IF c = Ord("\"")
         THEN currPos' = currPos + d.size /\ goto("readString")
         ELSE /\ currPos' = currPos + d.size
              /\ Return(newToken("LEX_ERROR", currPos + d.size, MsgInvalidChar(c)))
              /\ UNCHANGED fate
  /\ UNCHANGED <<source, Token, callVars, clientVars>>

\* One iteration of readComment's loop.
readComment ==
  /\ pc = "readComment"
  /\ LET d == DecodeRuneInString(source, currPos) IN
       IF IsCommentChar(d.code)
       THEN /\ currPos' = currPos + d.size
            /\ UNCHANGED <<pc, token, frame>>
       ELSE /\ Return(newToken("COMMENT", start, Slice(source, start, currPos)))
            /\ UNCHANGED currPos
  /\ UNCHANGED <<source, Token, callVars, fate, clientVars>>

\* One iteration of readName's loop.
readName ==
  /\ pc = "readName"
  /\ LET d == DecodeRuneInString(source, currPos) IN
       IF IsNameChar(d.code)
       THEN /\ currPos' = currPos + d.size
            /\ UNCHANGED <<pc, token, frame>>
       ELSE /\ Return(newToken("NAME", start, Slice(source, start, currPos)))
            /\ UNCHANGED currPos
  /\ UNCHANGED <<source, Token, callVars, fate, clientVars>>

\* readNumber up to the integer part: the sign, and the digit after a zero.
readNumber ==
  /\ pc = "readNumber"
  /\ LET d1 == IF code = Ord("-")
               THEN DecodeRuneInString(source, currPos)
               ELSE [code |-> code, size |-> 0]
         c1 == d1.code
         p1 == currPos + d1.size
         d2 == DecodeRuneInString(source, p1)
         p2 == p1 + d2.size
     IN  IF c1 = Ord("0")
         THEN IF IsDigit(d2.code)
              THEN /\ currPos' = p2
                   /\ Return(newToken("LEX_ERROR", p2, MsgDigitAfterZero(d2.code)))
              ELSE /\ currPos' = p2
                   /\ code' = d2.code
                   /\ size' = d2.size
                   /\ pc' = "readNumber_dot"
                   /\ UNCHANGED <<token, start, val, isFloat>>
         ELSE /\ currPos' = p1
              /\ code' = c1
              /\ size' = d1.size
              /\ pc' = "readNumber_digits"
              /\ UNCHANGED <<token, start, val, isFloat>>
  /\ UNCHANGED <<source, Token, callVars, fate, clientVars>>

\* One iteration of the loop over the digits of the integer part; on leaving
\* it the character after the digits is decoded once more.
readNumber_digits ==
  /\ pc = "readNumber_digits"
  /\ LET d == DecodeRuneInString(source, currPos) IN
       /\ code' = d.code
       /\ size' = d.size
       /\ IF IsDigit(d.code)
          THEN currPos' = currPos + d.size /\ pc' = pc
          ELSE currPos' = currPos /\ pc' = "readNumber_dot"
  /\ UNCHANGED <<source, Token, token, start, val, isFloat, callVars, fate, clientVars>>

\* if code == '.'
readNumber_dot ==
  /\ pc = "readNumber_dot"
  /\ IF code = Ord(".")
     THEN /\ currPos' = currPos + size
          /\ isFloat' = TRUE
          /\ pc' = "readNumber_frac"
     ELSE /\ pc' = "readNumber_exp"
          /\ UNCHANGED <<currPos, isFloat>>
  /\ UNCHANGED <<source, Token, token, start, code, size, val, callVars, fate, clientVars>>

\* One iteration of the loop over the digits after the '.'; slicing the
\* source past its end panics.
readNumber_frac ==
  /\ pc = "readNumber_frac"
  /\ IF currPos > Len(source)
     THEN Panic(currPos)
     ELSE LET d == DecodeRuneInString(source, currPos) IN
            /\ code' = d.code
            /\ size' = d.size
            /\ IF IsDigit(d.code)
               THEN currPos' = currPos + d.size /\ pc' = pc
               ELSE currPos' = currPos /\ pc' = "readNumber_exp"
            /\ UNCHANGED <<token, start, val, isFloat, fate>>
  /\ UNCHANGED <<source, Token, callVars, clientVars>>

\* if code == 'E' || code == 'e': the exponent mark, and the character after it.
readNumber_exp ==
  /\ pc = "readNumber_exp"
  /\ IF code = Ord("E") \/ code = Ord("e")
     THEN IF currPos + size > Len(source)
          THEN Panic(currPos + size)
          ELSE LET d == DecodeRuneInString(source, currPos + size) IN
                 /\ currPos' = currPos + size + d.size
                 /\ isFloat' = TRUE
                 /\ code' = d.code
                 /\ size' = d.size
                 /\ pc' = IF d.code = Ord("-") \/ d.code = Ord("+")
                          THEN "readNumber_expDigits"
                          ELSE "readNumber_end"
                 /\ UNCHANGED <<token, start, val, fate>>
     ELSE /\ pc' = "readNumber_end"
          /\ UNCHANGED <<currPos, token, frame, fate>>
  /\ UNCHANGED <<source, Token, callVars, clientVars>>

\* One iteration of the loop over the digits after the exponent's sign.
readNumber_expDigits ==
  /\ pc = "readNumber_expDigits"
  /\ LET d == DecodeRuneInString(source, currPos) IN
       /\ code' = d.code
       /\ size' = d.size
       /\ IF IsDigit(d.code)
          THEN currPos' = currPos + d.size /\ pc' = pc
          ELSE currPos' = currPos /\ pc' = "readNumber_end"
  /\ UNCHANGED <<source, Token, token, start, val, isFloat, callVars, fate, clientVars>>

\* The token of readNumber: the source from start to the cursor.
readNumber_end ==
  /\ pc = "readNumber_end"
  /\ IF currPos > Len(source)
     THEN Panic(currPos)
     ELSE /\ Return(newToken(IF isFloat THEN "FLOAT" ELSE "INT", start,
                             Slice(source, start, currPos)))
          /\ UNCHANGED <<currPos, fate>>
  /\ UNCHANGED <<source, Token, callVars, clientVars>>

\* SimpleEscape with the values of n and r exchanged.
SimpleEscape_swapped ==
  (Ord("\"") :> 34) @@ (Ord("/") :> 47) @@ (Ord("\\") :> 92) @@ (Ord("b") :> 8)
  @@ (Ord("f") :> 12) @@ (Ord("n") :> 13) @@ (Ord("r") :> 10) @@ (Ord("t") :> 9)

\* The escape specifiers readString's switch decodes to one character.
SimpleEscape ==
  (Ord("\"") :> 34) @@ (Ord("/") :> 47) @@ (Ord("\\") :> 92) @@ (Ord("b") :> 8)
  @@ (Ord("f") :> 12) @@ (Ord("n") :> 10) @@ (Ord("r") :> 13) @@ (Ord("t") :> 9)

\* One iteration of readString's loop and, when it breaks, the code after it.
readString ==
  /\ pc = "readString"
  /\ LET d == DecodeRuneInString(source, currPos)
         c == d.code
         p == currPos + d.size
         e == DecodeRuneInString(source, p)
         u == unicodeToChar(Slice(source, p + 1, Len(source)))
         continue(pos, cd, sz, v) ==
           /\ currPos' = pos
           /\ code' = cd
           /\ size' = sz
           /\ val' = v
           /\ UNCHANGED <<pc, token, start, isFloat, fate>>
     IN  IF IsStringChar(c)
         THEN /\ Len(val) < MaxValLen
              /\ continue(p, c, d.size, val \o EncodeRune(c))
         ELSE IF c = Ord("\\")
         THEN IF e.code \in DOMAIN SimpleEscape
              THEN continue(p + e.size, e.code, e.size, val \o <<SimpleEscape[e.code]>>)
              ELSE IF e.code = Ord("u")
              THEN IF u.res = "panic"
                   THEN Panic(p)
                   ELSE IF u.res = "err"
                   THEN /\ currPos' = p
                        /\ Return(newToken("LEX_ERROR", p, MsgInvalidEscape))
                        /\ UNCHANGED fate
                   ELSE continue(p + 5, e.code, e.size, val \o u.str)
              ELSE continue(p, e.code, e.size, val)
         ELSE IF c = Ord("\"")
         THEN /\ currPos' = p
              /\ Return(newToken("STRING", start, val))
              /\ UNCHANGED fate
         ELSE /\ Return(newToken("LEX_ERROR", currPos, MsgInvalidEnd(c)))
              /\ UNCHANGED <<currPos, fate>>
  /\ UNCHANGED <<source, Token, callVars, clientVars>>

\* The steps of Lexer.Next.
LexerStep ==
  \/ Next_enter
  \/ Next_assign
  \/ positionAfterWhitespace
  \/ readToken
  \/ readComment
  \/ readName
  \/ readNumber
  \/ readNumber_digits
  \/ readNumber_dot
  \/ readNumber_frac
  \/ readNumber_exp
  \/ readNumber_expDigits
  \/ readNumber_end
  \/ readString

(***************************************************************************)
(* A client of the lexer: New(source), then Next again and again.          *)
(***************************************************************************)
\* lexer.New(src): the cursor at 0 and a synthetic SOF as the current token.
New(src) ==
  /\ source' = src
  /\ currPos' = 0
  /\ Token' = newToken("SOF", 0, <<>>)

\* The client calls l.Next().
CallNext ==
  /\ ctl = "lex"
  /\ pc = "idle"
  /\ pc' = "Next"
  /\ UNCHANGED <<lexerVars, token, frame, callVars, fate, clientVars>>

\* The client, at the end of one source, builds a Lexer for the next one.
NewLexer ==
  /\ ctl = "lex"
  /\ pc = "idle"
  /\ Token.Kind = "EOF"
  /\ pending # <<>>
  /\ New(Head(pending))
  /\ pending' = Tail(pending)
  /\ prevReturned' = returned
  /\ returned' = <<>>
  /\ nextRet' = NilToken
  /\ UNCHANGED <<pc, token, frame, fate, ctl, parserVars, hexVars>>

(***************************************************************************)
(* The parser.  Each action is the code of one function between two calls  *)
(* of Lexer.Next; `ctl` is where the parser continues when Next returns.   *)
(***************************************************************************)
\* The longest list of definitions the model follows parseDocument to.
MaxDefinitions == 3

\* what a parser step leaves alone
callerFrame == <<lexerVars, token, frame, callVars, pending, prevReturned, hexVars>>

\* The parser is at position p and no call of Next is running.
AtParser(p) == ctl = p /\ pc = "idle" /\ fate = "run"

\* The parser goes on at position p without calling Next.
Goto(p) == ctl' = p /\ pc' = pc /\ fate' = fate

\* l.Next() is called; the parser goes on at p when it returns.
CallsNext(p) == ctl' = p /\ pc' = "Next" /\ fate' = fate

\* panic(err) of expect
ExpectPanics == ctl' = "halt" /\ pc' = pc /\ fate' = "panic"

\* expect(l, kind): advance past a current token of that kind, else panic.
expect(kind, p) == IF Token.Kind = kind THEN CallsNext(p) ELSE ExpectPanics

\* peek(l, kind)
peek(kind) == Token.Kind = kind

\* skip that advances whether or not the current token has that kind.
skip_alwaysAdvances(kind, p, q) ==
  IF Token.Kind = kind THEN CallsNext(p) ELSE CallsNext(q)

\* skip(l, kind): advance when the current token has that kind, and go on at
\* p; otherwise go on at q.
skip(kind, p, q) == IF Token.Kind = kind THEN CallsNext(p) ELSE Goto(q)

query == Str(<<"q","u","e","r","y">>)
mutation == Str(<<"m","u","t","a","t","i","o","n">>)
subscription == Str(<<"s","u","b","s","c","r","i","p","t","i","o","n">>)
fragment == Str(<<"f","r","a","g","m","e","n","t">>)

\* The zero value of GraphQLType; Type is an address in `heap`, 0 for nil.
ZeroType == [Value |-> <<>>, Kind |-> "", Type |-> 0]

\* GraphQLDefinition (its SelectionSet has no fields)
Definition(kind, nm, vds) ==
  [Kind |-> kind, Name |-> nm, VariableDefinitions |-> vds]

\* parseDocument: expect(l, lexer.SOF)
parseDocument ==
  /\ AtParser("parseDocument")
  /\ definitions' = <<>>
  /\ expect("SOF", "parseDocument_loop")
  /\ UNCHANGED <<opType, name, variableDefinitions, nameToken, typeToken, defaultValue, typ, typeVal, heap, document>>
  /\ UNCHANGED callerFrame

\* parseDocument: for !skip(l, lexer.EOF)
parseDocument_loop ==
  /\ AtParser("parseDocument_loop")
  /\ skip("EOF", "parseDocument_return", "parseDefinition")
  /\ UNCHANGED <<definitions, opType, name, variableDefinitions, nameToken, typeToken, defaultValue, typ, typeVal, heap, document>>
  /\ UNCHANGED callerFrame

\* parseDocument: return GraphQLDocument{definitions}
parseDocument_return ==
  /\ AtParser("parseDocument_return")
  /\ document' = [Definitions |-> definitions]
  /\ ctl' = "done"
  /\ fate' = "returned"
  /\ pc' = pc
  /\ UNCHANGED <<definitions, opType, name, variableDefinitions, nameToken, typeToken, defaultValue, typ, typeVal, heap>>
  /\ UNCHANGED callerFrame

\* parseDefinition, and what parseDocument does with an error or a Fragment
parseDefinition ==
  /\ AtParser("parseDefinition")
  /\ IF peek("BRACE_L")
     THEN Goto("parserOperatonDefinition") /\ UNCHANGED definitions
     ELSE IF peek("NAME") /\ Token.Value \in {query, mutation, subscription}
     THEN Goto("parserOperatonDefinition") /\ UNCHANGED definitions
     ELSE IF peek("NAME") /\ Token.Value = fragment
     THEN /\ Len(definitions) < MaxDefinitions
          /\ definitions' = Append(definitions, Definition("Fragment", <<>>, <<>>))
          /\ Goto("parseDocument_loop")
     ELSE /\ ctl' = "halt"
          /\ fate' = "fatal"
          /\ pc' = pc
          /\ UNCHANGED definitions
  /\ UNCHANGED <<opType, name, variableDefinitions, nameToken, typeToken, defaultValue, typ, typeVal, heap, document>>
  /\ UNCHANGED callerFrame

\* parserOperatonDefinition: the shorthand query, or the operation keyword
parserOperatonDefinition ==
  /\ AtParser("parserOperatonDefinition")
  /\ IF peek("BRACE_L")
     THEN /\ opType' = "Query"
          /\ name' = <<>>
          /\ variableDefinitions' = <<>>
          /\ Goto("parseSelectionSet")
     ELSE /\ opType' = IF Token.Value = query THEN "Query"
                       ELSE IF Token.Value = mutation THEN "Mutation"
                       ELSE IF Token.Value = subscription THEN "Subscription"
                       ELSE ""
          /\ name' = <<>>
          /\ variableDefinitions' = <<>>
          /\ expect("NAME", "parserOperatonDefinition_name")
  /\ UNCHANGED <<definitions, nameToken, typeToken, defaultValue, typ, typeVal, heap, document>>
  /\ UNCHANGED callerFrame

\* parserOperatonDefinition_name without the assignment of the name.
parserOperatonDefinition_noName ==
  /\ AtParser("parserOperatonDefinition_name")
  /\ IF peek("NAME")
     THEN expect("NAME", "parseVariableDefinitions")
     ELSE Goto("parseVariableDefinitions")
  /\ UNCHANGED <<definitions, opType, name, variableDefinitions, nameToken, typeToken, defaultValue, typ, typeVal, heap, document>>
  /\ UNCHANGED callerFrame

\* parserOperatonDefinition: the optional name of the operation
parserOperatonDefinition_name ==
  /\ AtParser("parserOperatonDefinition_name")
  /\ IF peek("NAME")
     THEN /\ name' = Token.Value
          /\ expect("NAME", "parseVariableDefinitions")
     ELSE /\ Goto("parseVariableDefinitions")
          /\ UNCHANGED name
  /\ UNCHANGED <<definitions, opType, variableDefinitions, nameToken, typeToken, defaultValue, typ, typeVal, heap, document>>
  /\ UNCHANGED callerFrame

\* parseVariableDefinitions: the opening parenthesis, or no definitions
parseVariableDefinitions ==
  /\ AtParser("parseVariableDefinitions")
  /\ variableDefinitions' = <<>>
  /\ IF peek("PAREN_L")
     THEN expect("PAREN_L", "parseVariableDefinitions_loop")
     ELSE Goto("parseSelectionSet")
  /\ UNCHANGED <<definitions, opType, name, nameToken, typeToken, defaultValue, typ, typeVal, heap, document>>
  /\ UNCHANGED callerFrame

\* parseVariableDefinitions: for !skip(l, lexer.PAREN_R)
parseVariableDefinitions_loop ==
  /\ AtParser("parseVariableDefinitions_loop")
  /\ skip("PAREN_R", "parseSelectionSet", "parseVariableDefinition")
  /\ UNCHANGED <<definitions, opType, name, variableDefinitions, nameToken, typeToken, defaultValue, typ, typeVal, heap, document>>
  /\ UNCHANGED callerFrame

\* parseVariableDefinition: expect(l, lexer.DOLLAR)
parseVariableDefinition ==
  /\ AtParser("parseVariableDefinition")
  /\ expect("DOLLAR", "parseVariableDefinition_name")
  /\ UNCHANGED <<definitions, opType, name, variableDefinitions, nameToken, typeToken, defaultValue, typ, typeVal, heap, document>>
  /\ UNCHANGED callerFrame

\* parseVariableDefinition: nameToken := expect(l, lexer.NAME)
parseVariableDefinition_name ==
  /\ AtParser("parseVariableDefinition_name")
  /\ nameToken' = IF peek("NAME") THEN Token ELSE nameToken
  /\ expect("NAME", "parseVariableDefinition_colon")
  /\ UNCHANGED <<definitions, opType, name, variableDefinitions, typeToken, defaultValue, typ, typeVal, heap, document>>
  /\ UNCHANGED callerFrame

\* parseVariableDefinition: expect(l, lexer.COLON)
parseVariableDefinition_colon ==
  /\ AtParser("parseVariableDefinition_colon")
  /\ expect("COLON", "parseInputType")
  /\ UNCHANGED <<definitions, opType, name, variableDefinitions, nameToken, typeToken, defaultValue, typ, typeVal, heap, document>>
  /\ UNCHANGED callerFrame

\* parseInputType: var typ, and a leading Name
parseInputType ==
  /\ AtParser("parseInputType")
  /\ heap' = Append(heap, ZeroType)
  /\ typ' = Len(heap) + 1
  /\ IF peek("NAME")
     THEN /\ typeVal' = Token.Value
          /\ expect("NAME", "parseInputType_named")
     ELSE /\ Goto("parseInputType_list")
          /\ UNCHANGED typeVal
  /\ UNCHANGED <<definitions, opType, name, variableDefinitions, nameToken, typeToken, defaultValue, document>>
  /\ UNCHANGED callerFrame

\* parseInputType: typ = GraphQLType{Value: val.Value, Kind: NamedType}
parseInputType_named ==
  /\ AtParser("parseInputType_named")
  /\ heap' = [heap EXCEPT ![typ] = [Value |-> typeVal, Kind |-> "NamedType", Type |-> 0]]
  /\ Goto("parseInputType_list")
  /\ UNCHANGED <<definitions, opType, name, variableDefinitions, nameToken, typeToken, defaultValue, typ, typeVal, document>>
  /\ UNCHANGED callerFrame

\* parseInputType: if peek(l, lexer.BRACKET_L)
parseInputType_list ==
  /\ AtParser("parseInputType_list")
  /\ IF peek("BRACKET_L")
     THEN expect("BRACKET_L", "parseInputType_listName")
     ELSE Goto("parseInputType_bang")
  /\ UNCHANGED <<definitions, opType, name, variableDefinitions, nameToken, typeToken, defaultValue, typ, typeVal, heap, document>>
  /\ UNCHANGED callerFrame

\* parseInputType: val := expect(l, lexer.NAME) inside the brackets
parseInputType_listName ==
  /\ AtParser("parseInputType_listName")
  /\ typeVal' = IF peek("NAME") THEN Token.Value ELSE typeVal
  /\ expect("NAME", "parseInputType_listClose")
  /\ UNCHANGED <<definitions, opType, name, variableDefinitions, nameToken, typeToken, defaultValue, typ, heap, document>>
  /\ UNCHANGED callerFrame

\* parseInputType: expect(l, lexer.BRACKET_R)
parseInputType_listClose ==
  /\ AtParser("parseInputType_listClose")
  /\ expect("BRACKET_R", "parseInputType_listType")
  /\ UNCHANGED <<definitions, opType, name, variableDefinitions, nameToken, typeToken, defaultValue, typ, typeVal, heap, document>>
  /\ UNCHANGED callerFrame

\* parseInputType: typ = GraphQLType{Value: val.Value, Kind: ListType}
parseInputType_listType ==
  /\ AtParser("parseInputType_listType")
  /\ heap' = [heap EXCEPT ![typ] = [Value |-> typeVal, Kind |-> "ListType", Type |-> 0]]
  /\ Goto("parseInputType_bang")
  /\ UNCHANGED <<definitions, opType, name, variableDefinitions, nameToken, typeToken, defaultValue, typ, typeVal, document>>
  /\ UNCHANGED callerFrame

\* parseInputType: if peek(l, lexer.BANG) { l.Next() ... }, else return typ
parseInputType_bang ==
  /\ AtParser("parseInputType_bang")
  /\ IF peek("BANG")
     THEN /\ CallsNext("parseInputType_nonNull")
          /\ UNCHANGED typeToken
     ELSE /\ typeToken' = heap[typ]
          /\ Goto("parseVariableDefinition_default")
  /\ UNCHANGED <<definitions, opType, name, variableDefinitions, nameToken, defaultValue, typ, typeVal, heap, document>>
  /\ UNCHANGED callerFrame

\* parseInputType: typ = GraphQLType{Value: typ.Value, Kind: NonNullType, Type: &typ}; return typ
parseInputType_nonNull ==
  /\ AtParser("parseInputType_nonNull")
  /\ heap' = [heap EXCEPT ![typ] =
                [Value |-> heap[typ].Value, Kind |-> "NonNullType", Type |-> typ]]
  /\ typeToken' = heap'[typ]
  /\ Goto("parseVariableDefinition_default")
  /\ UNCHANGED <<definitions, opType, name, variableDefinitions, nameToken, defaultValue, typ, typeVal, document>>
  /\ UNCHANGED callerFrame

\* parseVariableDefinition: var defaultValue; if peek(l, lexer.EQUALS) { l.Next() ...
parseVariableDefinition_default ==
  /\ AtParser("parseVariableDefinition_default")
  /\ defaultValue' = NilToken
  /\ IF peek("EQUALS")
     THEN CallsNext("parseValue")
     ELSE Goto("parseVariableDefinition_return")
  /\ UNCHANGED <<definitions, opType, name, variableDefinitions, nameToken, typeToken, typ, typeVal, heap, document>>
  /\ UNCHANGED callerFrame

\* parseValue: return l.Next()
parseValue ==
  /\ AtParser("parseValue")
  /\ CallsNext("parseVariableDefinition_value")
  /\ UNCHANGED <<definitions, opType, name, variableDefinitions, nameToken, typeToken, defaultValue, typ, typeVal, heap, document>>
  /\ UNCHANGED callerFrame

\* parseVariableDefinition: defaultValue = parseValue(l)
parseVariableDefinition_value ==
  /\ AtParser("parseVariableDefinition_value")
  /\ defaultValue' = nextRet
  /\ Goto("parseVariableDefinition_return")
  /\ UNCHANGED <<definitions, opType, name, variableDefinitions, nameToken, typeToken, typ, typeVal, heap, document>>
  /\ UNCHANGED callerFrame

\* parseVariableDefinition's result, appended by parseVariableDefinitions
parseVariableDefinition_return ==
  /\ AtParser("parseVariableDefinition_return")
  /\ variableDefinitions' =
       Append(variableDefinitions,
              [Name |-> nameToken.Value, Type |-> typeToken,
               DefaultValue |-> defaultValue])
  /\ Goto("parseVariableDefinitions_loop")
  /\ UNCHANGED <<definitions, opType, name, nameToken, typeToken, defaultValue, typ, typeVal, heap, document>>
  /\ UNCHANGED callerFrame

\* parseSelectionSet: for !skip(l, lexer.EOF)
parseSelectionSet ==
  /\ AtParser("parseSelectionSet")
  /\ skip("EOF", "parseSelectionSet_return", "parseSelectionSet_next")
  /\ UNCHANGED <<definitions, opType, name, variableDefinitions, nameToken, typeToken, defaultValue, typ, typeVal, heap, document>>
  /\ UNCHANGED callerFrame

\* parseSelectionSet: the body of the loop, l.Next()
parseSelectionSet_next ==
  /\ AtParser("parseSelectionSet_next")
  /\ CallsNext("parseSelectionSet")
  /\ UNCHANGED <<definitions, opType, name, variableDefinitions, nameToken, typeToken, defaultValue, typ, typeVal, heap, document>>
  /\ UNCHANGED callerFrame

\* The operation is complete: parseDocument appends it
parseSelectionSet_return ==
  /\ AtParser("parseSelectionSet_return")
  /\ definitions' = Append(definitions, Definition(opType, name, variableDefinitions))
  /\ Goto("parseDocument_loop")
  /\ UNCHANGED <<opType, name, variableDefinitions, nameToken, typeToken, defaultValue, typ, typeVal, heap, document>>
  /\ UNCHANGED callerFrame

\* The steps of Parse.
ParserStep ==
  \/ parseDocument
  \/ parseDocument_loop
  \/ parseDocument_return
  \/ parseDefinition
  \/ parserOperatonDefinition
  \/ parserOperatonDefinition_name
  \/ parseVariableDefinitions
  \/ parseVariableDefinitions_loop
  \/ parseVariableDefinition
  \/ parseVariableDefinition_name
  \/ parseVariableDefinition_colon
  \/ parseInputType
  \/ parseInputType_named
  \/ parseInputType_list
  \/ parseInputType_listName
  \/ parseInputType_listClose
  \/ parseInputType_listType
  \/ parseInputType_bang
  \/ parseInputType_nonNull
  \/ parseVariableDefinition_default
  \/ parseValue
  \/ parseVariableDefinition_value
  \/ parseVariableDefinition_return
  \/ parseSelectionSet
  \/ parseSelectionSet_next
  \/ parseSelectionSet_return

(***************************************************************************)
(* The sources the lexer is run on.                                        *)
(***************************************************************************)
SeqsUpTo(S, n) == UNION {[1..k -> S] : k \in 0..n}

BOM == <<239, 187, 191>>

\* Pieces of general text: punctuators, a comment, separators, a name, dots,
\* an invalid control character, a character no token starts with.
MaxPieces == 2

GenPieces ==
  { Str(<<"{">>), Str(<<"}">>), Str(<<"!">>), Str(<<"#"," ","c">>), <<10>>,
    Str(<<" ">>), Str(<<",">>), BOM, Str(<<"a","_","1">>), Str(<<".",".",".">>),
    Str(<<".">>), <<1>>, Str(<<"?">>), Str(<<"0">>), Str(<<"\"","s","\"">>) }

GeneralSources ==
  {Concat(ps) : ps \in SeqsUpTo(GenPieces, MaxPieces)}
  \cup {<<c>> : c \in DOMAIN Punctuator}

\* Numbers: sign, integer part, fraction, exponent, and what follows.
MaxIntDigits == 2
MaxFracDigits == 1
MaxExpDigits == 2

IntParts == SeqsUpTo({Ord("0"), Ord("1")}, MaxIntDigits)

FracParts ==
  {<<>>} \cup {Str(<<".">>) \o ds : ds \in SeqsUpTo({Ord("5")}, MaxFracDigits)}

ExpParts ==
  {<<>>} \cup
  {<<e>> \o sg \o ds : e \in {Ord("e"), Ord("E")},
                       sg \in {<<>>, Str(<<"+">>), Str(<<"-">>)},
                       ds \in SeqsUpTo({Ord("1")}, MaxExpDigits)}

NumberTails == {<<>>, Str(<<"}">>), Str(<<" ">>), Str(<<")">>)}

NumberSources ==
  {sg \o ip \o fp \o ep \o tl :
     sg \in {<<>>, Str(<<"-">>)}, ip \in IntParts, fp \in FracParts,
     ep \in ExpParts, tl \in NumberTails}

\* String literals: an opening quote, items, and a closing quote or none.
MaxStrItems == 2

StrItems ==
  { Str(<<"a">>), <<195, 169>>, <<9>>, <<10>>, <<240, 159, 152, 128>>,
    Str(<<"\\","\"">>), Str(<<"\\","/">>), Str(<<"\\","\\">>), Str(<<"\\","b">>),
    Str(<<"\\","f">>), Str(<<"\\","n">>), Str(<<"\\","r">>), Str(<<"\\","t">>),
    Str(<<"\\","u","0","0","4","1">>), Str(<<"\\","u","0","0","E","9">>),
    Str(<<"\\","u","D","8","0","0">>), Str(<<"\\","u","0","0","g","1">>),
    Str(<<"\\","u","0","0">>), Str(<<"\\","q">>), Str(<<"\\">>) }

StrClosers == {<<>>, Str(<<"\"">>)}

StringSources ==
  {Str(<<"\"">>) \o Concat(its) \o cl :
     its \in SeqsUpTo(StrItems, MaxStrItems), cl \in StrClosers}

\* The sources the specification names as examples.
ExampleSources ==
  { Str(<<"#"," ","c","o","m","m","e","n","t">>) \o <<10>> \o Str(<<"{"," ","}">>),
    Str(<<"\"","a","b","c">>),
    Str(<<"\"","\\","n","\\","t","\\","\"","a","\\","\\","b","\"">>),
    Str(<<"1",".","5">>), Str(<<"1","e","1","0">>), Str(<<"1","E","-","3">>),
    Str(<<"-","2",".","5","e","+","1","0">>),
    Str(<<"1","2","3">>), Str(<<"-","4","2">>),
    Str(<<".",".">>), Str(<<".","x">>) }

LexSources ==
  GeneralSources \cup NumberSources \cup StringSources \cup ExampleSources

\* Two renderings of one sequence of lexemes: with a separator only where two
\* lexemes would otherwise run together, and with one around every lexeme.
MaxLexemes == 2

Lexemes ==
  { Str(<<"{">>), Str(<<"}">>), Str(<<":">>), Str(<<"a">>), Str(<<"1">>),
    Str(<<"0">>) }

Separators == {<<9>>, Str(<<" ">>), <<10>>, <<13>>, Str(<<",">>), BOM}

RunTogether(x, y) == IsNameChar(x[Len(x)]) /\ IsNameChar(y[1])

RECURSIVE Tight(_, _)
Tight(ls, sep) ==
  IF Len(ls) <= 1 THEN Concat(ls)
  ELSE ls[1] \o (IF RunTogether(ls[1], ls[2]) THEN sep ELSE <<>>)
             \o Tight(Tail(ls), sep)

RECURSIVE Loose(_, _)
Loose(ls, sep) ==
  IF ls = <<>> THEN sep ELSE sep \o Head(ls) \o Loose(Tail(ls), sep)

ExampleLexemes ==
  { <<Str(<<"{">>), Str(<<"a">>), Str(<<":">>), Str(<<"1">>), Str(<<"b">>),
      Str(<<":">>), Str(<<"2">>), Str(<<"}">>)>>,
    <<Str(<<"{">>), Str(<<"a">>), Str(<<":">>), Str(<<"0">>), Str(<<"b">>),
      Str(<<":">>), Str(<<"0">>), Str(<<"}">>)>> }

SeparatorPairs ==
  {<<Tight(ls, sep), Loose(ls, sep)>> :
     ls \in (SeqsUpTo(Lexemes, MaxLexemes) \ {<<>>}) \cup ExampleLexemes,
     sep \in Separators}

\* What a client lexes: one source, or two sources one after the other.
LexRuns == {<<src>> : src \in LexSources} \cup SeparatorPairs

\* The documents Parse is run on: a leading comment or none, the leading
\* token of a definition, and a body.
MaxVarDefs == 2

Leads == {<<>>, Str(<<"#"," ","c">>) \o <<10>>}

Heads ==
  { <<>>, Str(<<"{">>), query, mutation, subscription, fragment,
    Str(<<"f","o","o">>), Str(<<")">>), Str(<<"?">>) }

Bodies ==
  { <<>>, Str(<<" ","{"," ","}">>), Str(<<" ","{"," ","a"," ","}">>),
    Str(<<" ","F","o","o"," ","{"," ","}">>),
    Str(<<" ","{"," ","?"," ","}">>), Str(<<" ","#"," ","c">>),
    Str(<<" ","{","a","(","x",":","-","1","0",".","5","e","+","1",",",
          "y",":","0",",","s",":","\"","s","\"",")","}">>),
    Str(<<" ","{"," ","\"","a","b","c">>), Str(<<" ","{"," ">>) \o <<1>> }

SimpleDocuments == {ld \o hd \o bd : ld \in Leads, hd \in Heads, bd \in Bodies}

TypeTexts ==
  { Str(<<"I","n","t">>), Str(<<"[","I","n","t","]">>), Str(<<"I","n","t","!">>),
    Str(<<"[","I","n","t","]","!">>), <<>>, Str(<<"!">>) }

DefaultTexts == {<<>>, Str(<<" ","="," ","5">>)}

VarDefTexts ==
  {Str(<<" ","$","x",":"," ">>) \o ty \o dv : ty \in TypeTexts, dv \in DefaultTexts}

VarParts ==
  {Str(<<"(">>) \o Concat(vds) \o cl :
     vds \in SeqsUpTo(VarDefTexts, MaxVarDefs), cl \in {<<>>, Str(<<")">>)}}

OperationDocuments ==
  {query \o nm \o vp \o Str(<<" ","{"," ","}">>) :
     nm \in {<<>>, Str(<<" ","F","o","o">>)}, vp \in VarParts}

ParseSources == SimpleDocuments \cup OperationDocuments

\* The state after lexer.New(src), before the caller at position c runs.
InitWith(runs, c, args) ==
  /\ \E run \in runs : source = Head(run) /\ pending = Tail(run)
  /\ unhexArg \in args
  /\ unhexRet = [v |-> 0, ok |-> FALSE]
  /\ currPos = 0
  /\ Token = newToken("SOF", 0, <<>>)
  /\ pc = "idle"
  /\ token = NilToken
  /\ start = 0 /\ code = 0 /\ size = 0 /\ val = <<>> /\ isFloat = FALSE
  /\ nextRet = NilToken
  /\ returned = <<>>
  /\ fate = "run"
  /\ ctl = c
  /\ prevReturned = <<>>
  /\ definitions = <<>>
  /\ opType = ""
  /\ name = <<>>
  /\ variableDefinitions = <<>>
  /\ nameToken = NilToken
  /\ typeToken = ZeroType
  /\ defaultValue = NilToken
  /\ typ = 0
  /\ typeVal = <<>>
  /\ heap = <<>>
  /\ document = [Definitions |-> <<>>]

\* A client lexes a source token by token.
Init == InitWith(LexRuns, "lex", {0})

Next ==
  \/ LexerStep
  \/ CallNext
  \/ NewLexer

Spec == Init /\ [][Next]_vars

\* Parse(source).
InitParse == InitWith({<<src>> : src \in ParseSources}, "parseDocument", {0})

NextParse ==
  \/ LexerStep
  \/ ParserStep

SpecParse == InitParse /\ [][NextParse]_vars

\* The values of a byte.
Bytes == 0..255

\* x, ok := unhex(b), for a byte b.
unhex_call ==
  /\ ctl = "unhex"
  /\ unhexRet' = unhex(unhexArg)
  /\ ctl' = "unhex_done"
  /\ UNCHANGED <<lexerVars, pc, token, frame, callVars, fate, pending,
                 prevReturned, parserVars, unhexArg>>

InitUnhex == InitWith({<< <<>> >>}, "unhex", Bytes)

NextUnhex == unhex_call

SpecUnhex == InitUnhex /\ [][NextUnhex]_vars

(***************************************************************************)
(* The claims.                                                             *)
(***************************************************************************)
\* The scan of a string literal has reached the end of the input: no closing
\* quote came before it.
StringAtEndOfInput == pc = "readString" /\ currPos >= Len(source)

\* C1: when a string literal is opened and the end of the input is reached
\* before a closing quote, the scan call ends there and its result is a
\* LexError: the step taken at the end of the input returns a LEX_ERROR token
\* instead of going round the loop again.
C1_UnterminatedStringIsLexError ==
  [][StringAtEndOfInput => pc' = "Next_assign" /\ token'.Kind = "LEX_ERROR"]_vars

\* Parse is over: it returned a Document, or the process stopped on an error.
ParseOver == fate \in {"returned", "fatal", "panic"}

\* C2: Parse terminates for every source: as long as it has neither returned
\* a Document nor stopped on an error, some step of it changes the state (no
\* loop of the parser or of the lexer is left running in place).
C2_ParseTerminates == ParseOver \/ ENABLED <<NextParse>>_vars

\* The number grammar of the specification, as a recognizer of a whole text:
\* an optional '-', then 0 or a non-zero digit and digits, then an optional
\* '.' with at least one digit, then an optional E/e with an optional sign and
\* at least one digit.
RECURSIVE SkipDigits(_, _)
SkipDigits(s, i) ==
  IF i <= Len(s) /\ IsDigit(s[i]) THEN SkipDigits(s, i + 1) ELSE i

NumberText(s) ==
  LET at(i) == IF i <= Len(s) THEN s[i] ELSE 0
      i0 == IF at(1) = Ord("-") THEN 2 ELSE 1
      i1 == IF at(i0) = Ord("0") THEN i0 + 1 ELSE SkipDigits(s, i0)
      hasFrac == at(i1) = Ord(".")
      i2 == IF hasFrac THEN SkipDigits(s, i1 + 1) ELSE i1
      hasExp == at(i2) \in {Ord("e"), Ord("E")}
      i3 == IF hasExp /\ at(i2 + 1) \in {Ord("+"), Ord("-")} THEN i2 + 2 ELSE i2 + 1
      i4 == IF hasExp THEN SkipDigits(s, i3) ELSE i2
  IN  [ok |-> /\ i1 > i0
              /\ hasFrac => i2 > i1 + 1
              /\ hasExp => i4 > i3
              /\ i4 = Len(s) + 1,
       float |-> hasFrac \/ hasExp]

IsFloatText(s) == NumberText(s).ok /\ NumberText(s).float
IsIntText(s) == NumberText(s).ok /\ ~NumberText(s).float

\* C3: a source that is one number with a fraction and/or an exponent lexes
\* to one Float token whose value is the whole source, and then to EOF.
C3_FloatRoundTrip ==
  IsFloatText(source) =>
    /\ fate = "run"
    /\ Len(returned) >= 1 =>
         returned[1].Kind = "FLOAT" /\ returned[1].Value = source
    /\ Len(returned) >= 2 => returned[2].Kind = "EOF"

\* sub occurs in s
Contains(s, sub) ==
  \E i \in 0..(Len(s) - Len(sub)) : Slice(s, i, i + Len(sub)) = sub

UnexpectedDigitAfterZero ==
  Str(<<"u","n","e","x","p","e","c","t","e","d"," ","d","i","g","i","t"," ",
        "a","f","t","e","r"," ","0">>)

\* The source is an optional '-', a 0 and at least one more digit.
ZeroThenDigit(s) ==
  LET i0 == IF s # <<>> /\ s[1] = Ord("-") THEN 2 ELSE 1
  IN  /\ Len(s) > i0
      /\ s[i0] = Ord("0")
      /\ SkipDigits(s, i0) = Len(s) + 1

\* C4: a source that is one valid Int text lexes to one Int token whose value
\* is the source (and then to EOF); a source in which a 0 is directly followed
\* by another digit lexes to a LexError saying "unexpected digit after 0".
C4_IntRoundTrip ==
  /\ IsIntText(source) =>
       /\ fate = "run"
       /\ Len(returned) >= 1 =>
            returned[1].Kind = "INT" /\ returned[1].Value = source
       /\ Len(returned) >= 2 => returned[2].Kind = "EOF"
  /\ ZeroThenDigit(source) =>
       /\ fate = "run"
       /\ Len(returned) >= 1 =>
            /\ returned[1].Kind = "LEX_ERROR"
            /\ Contains(returned[1].Value, UnexpectedDigitAfterZero)

\* A valid Int text with a sign has been lexed to its end.
C4_Witness ==
  /\ IsIntText(source)
  /\ source[1] = Ord("-")
  /\ Len(returned) = 2
  /\ returned[1].Kind = "INT"
  /\ pc = "idle"

\* The tokens Next returned right after an `=`, in order.
RECURSIVE AfterEquals(_)
AfterEquals(ts) ==
  IF Len(ts) < 2 THEN <<>>
  ELSE (IF ts[1].Kind = "EQUALS" THEN <<ts[2]>> ELSE <<>>) \o AfterEquals(Tail(ts))

\* The default values of the variable definitions of a document, in order.
RECURSIVE DefaultsOf(_)
DefaultsOf(vds) ==
  IF vds = <<>> THEN <<>>
  ELSE (IF Head(vds).DefaultValue = NilToken THEN <<>>
        ELSE <<Head(vds).DefaultValue>>) \o DefaultsOf(Tail(vds))

RECURSIVE AllDefaults(_)
AllDefaults(ds) ==
  IF ds = <<>> THEN <<>>
  ELSE DefaultsOf(Head(ds).VariableDefinitions) \o AllDefaults(Tail(ds))

\* The `=` of the document all belong to variable definitions.
EqualsOnlyInVariables == source \in OperationDocuments

\* C5: the DefaultValue of a variable definition `$name : Type = v` is the
\* single token v that immediately follows the `=`, and a definition without
\* `=` has none: the default values of a returned document are, in order, the
\* tokens that followed an `=`.
C5_DefaultValueFollowsEquals ==
  (fate = "returned" /\ EqualsOnlyInVariables) =>
    AllDefaults(document.Definitions) = AfterEquals(returned)

\* The (kind, value) pairs of a sequence of tokens.
KindValues(ts) == [i \in 1..Len(ts) |-> <<ts[i].Kind, ts[i].Value>>]

\* Both renderings of a sequence of lexemes have been lexed up to EOF.
BothLexed ==
  /\ pc = "idle"
  /\ Token.Kind = "EOF"
  /\ pending = <<>>
  /\ prevReturned # <<>>

\* C6: separators are insignificant: two sources that differ only by tab,
\* space, LF, CR, comma or BOM characters between their tokens lex, by
\* repeated Next() up to EOF, to the same sequence of (kind, value) pairs.
C6_SeparatorsInsignificant ==
  BothLexed => KindValues(returned) = KindValues(prevReturned)

CommentExample ==
  Str(<<"#"," ","c","o","m","m","e","n","t">>) \o <<10>> \o Str(<<"{"," ","}">>)

\* C7: Next() never surfaces a comment: neither the token it returns nor the
\* current token it leaves behind is a Comment, and `# comment`, LF, `{ }`
\* lexes to exactly BraceLeft, BraceRight, EndOfFile.
C7_NextNeverSurfacesComment ==
  /\ nextRet.Kind # "COMMENT"
  /\ \A i \in 1..Len(returned) : returned[i].Kind # "COMMENT"
  /\ pc = "idle" => Token.Kind # "COMMENT"
  /\ (source = CommentExample /\ pc = "idle" /\ Token.Kind = "EOF") =>
       [i \in 1..Len(returned) |-> returned[i].Kind] = <<"BRACE_L", "BRACE_R", "EOF">>

\* The comment of the example has been scanned and Next went on to the brace.
C7_Witness ==
  /\ source = CommentExample
  /\ pc = "idle"
  /\ Len(returned) = 1
  /\ nextRet.Kind = "BRACE_L"
  /\ nextRet.Pos = 10

\* The escape specifiers the specification recognizes.
RecognizedSpecifiers ==
  { Ord("\""), Ord("/"), Ord("\\"), Ord("b"), Ord("f"), Ord("n"), Ord("r"),
    Ord("t"), Ord("u") }

\* The decoded text of a string literal, as the specification gives it: the
\* character each simple escape stands for,
EscapedCharacter ==
  (Ord("\"") :> 34) @@ (Ord("/") :> 47) @@ (Ord("\\") :> 92) @@ (Ord("b") :> 8)
  @@ (Ord("f") :> 12) @@ (Ord("n") :> 10) @@ (Ord("r") :> 13) @@ (Ord("t") :> 9)

\* the value of a hexadecimal digit (-1 for any other byte),
HexValue(b) ==
  IF b >= 48 /\ b <= 57 THEN b - 48
  ELSE IF b >= 65 /\ b <= 70 THEN b - 55
  ELSE IF b >= 97 /\ b <= 102 THEN b - 87
  ELSE -1

\* the printable range: U+0020 to U+FFFF and the tab, without the quote, the
\* backslash, LF and CR (U+FFFD here is only what an invalid encoding decodes to),
IsPrintable(c) ==
  /\ (c >= 32 /\ c <= 65535) \/ c = 9
  /\ c \notin {Ord("\""), Ord("\\"), 10, 13, RuneError}

\* and the scan itself, from the byte after the opening quote. error is
\* "none" for a terminated literal made of printable characters and recognized
\* escapes (a \u escape of a code that is a scalar value, so no surrogate),
\* "escape" when a backslash is followed by an unrecognized specifier, and
\* otherwise names what else ended the literal.
RECURSIVE DecodedFrom(_, _, _)
DecodedFrom(s, i, acc) ==
  LET d == DecodeRuneInString(s, i)
      fail(e) == [error |-> e, value |-> <<>>, end |-> i]
      h(k) == HexValue(s[i + 2 + k])
      cp == ((h(1) * 16 + h(2)) * 16 + h(3)) * 16 + h(4)
  IN  IF i >= Len(s) THEN fail("unterminated")
      ELSE IF d.code = Ord("\"") THEN [error |-> "none", value |-> acc, end |-> i + 1]
      ELSE IF d.code = Ord("\\") THEN
        IF i + 1 >= Len(s) THEN fail("unterminated")
        ELSE IF s[i + 2] \in DOMAIN EscapedCharacter
        THEN DecodedFrom(s, i + 2, acc \o <<EscapedCharacter[s[i + 2]]>>)
        ELSE IF s[i + 2] \notin RecognizedSpecifiers THEN fail("escape")
        ELSE IF /\ i + 6 <= Len(s)
                /\ \A k \in 1..4 : h(k) >= 0
                /\ ~(cp >= 55296 /\ cp <= 57343)
        THEN DecodedFrom(s, i + 6, acc \o EncodeRune(cp))
        ELSE fail("unicode")
      ELSE IF IsPrintable(d.code)
      THEN DecodedFrom(s, i + d.size, acc \o Slice(s, i, i + d.size))
      ELSE fail("character")

\* The literal whose opening quote is at offset pos.
StringLiteral(s, pos) ==
  IF pos < Len(s) /\ s[pos + 1] = Ord("\"")
  THEN DecodedFrom(s, pos + 1, <<>>)
  ELSE [error |-> "no literal", value |-> <<>>, end |-> pos]

\* The first call of Next has scanned a token of a source that begins with a
\* string literal.
FirstScanOfLiteral ==
  /\ pc = "Next_assign"
  /\ Token.Kind = "SOF"
  /\ StringLiteral(source, 0).error # "no literal"

\* C8: a string literal in which a backslash is followed by a character that
\* is not one of " / \ b f n r t u is scanned to a LexError; no String token
\* is produced for it.
C8_UnknownEscapeIsLexError ==
  /\ (FirstScanOfLiteral /\ StringLiteral(source, 0).error = "escape") =>
       token.Kind = "LEX_ERROR"
  /\ (pc = "Next_assign" /\ token.Kind = "STRING") =>
       StringLiteral(source, token.Pos).error # "escape"

\* C9: a terminated string literal built from printable characters and
\* recognized escapes is scanned to a String token whose value is the decoded
\* text, with the cursor just past the closing quote, and the scan of such a
\* literal ends no other way.
C9_StringDecoding ==
  /\ (FirstScanOfLiteral /\ StringLiteral(source, 0).error = "none") =>
       token.Kind = "STRING"
  /\ (pc = "Next_assign" /\ token.Kind = "STRING"
        /\ StringLiteral(source, token.Pos).error = "none") =>
       /\ token.Value = StringLiteral(source, token.Pos).value
       /\ currPos = StringLiteral(source, token.Pos).end
  /\ (pc = "halt" /\ fate = "panic") => StringLiteral(source, start).error # "none"

\* A literal with a \u escape and a simple escape has been scanned.
C9_Witness ==
  /\ FirstScanOfLiteral
  /\ token.Kind = "STRING"
  /\ StringLiteral(source, 0).error = "none"
  /\ token.Value = <<65, 10>>

\* The scan is at a control character below 0x20 other than tab, LF and CR.
AtControlCharacter ==
  /\ pc = "readToken"
  /\ currPos < Len(source)
  /\ source[currPos + 1] < 32
  /\ source[currPos + 1] \notin {9, 10, 13}

\* C10: when the first character after the separators is a control character
\* below 0x20 other than tab, LF or CR, the scan returns a LexError to its
\* caller; it does not end the process.
C10_ControlCharacterIsLexError ==
  [][AtControlCharacter =>
       pc' = "Next_assign" /\ token'.Kind = "LEX_ERROR" /\ fate' = "run"]_vars

\* C11: a LexError token produced by the lexer at any point of Parse makes
\* Parse fail: when Parse has returned a Document, none of the tokens Next
\* returned during the parse is a LexError.
C11_LexErrorFailsParse ==
  fate = "returned" => \A i \in 1..Len(returned) : returned[i].Kind # "LEX_ERROR"

\* The kind of operation each operation keyword stands for.
KindOfKeyword == [k \in {query, mutation, subscription} |->
                    IF k = query THEN "Query"
                    ELSE IF k = mutation THEN "Mutation"
                    ELSE "Subscription"]

\* The first token of the source, and the one after it.
LeadingToken == returned[1]
FollowingToken == IF Len(returned) >= 2 THEN returned[2] ELSE NilToken

\* C12: Parse maps the leading form of a definition to its operation: a
\* leading `{` gives one Query without name and variable definitions; a
\* leading Name query, mutation or subscription gives that kind, named by the
\* Name token that follows if there is one; an empty source gives a Document
\* without definitions.
C12_LeadingFormGivesOperation ==
  fate = "returned" =>
    /\ LeadingToken.Kind = "EOF" => document.Definitions = <<>>
    /\ LeadingToken.Kind = "BRACE_L" =>
         document.Definitions = <<Definition("Query", <<>>, <<>>)>>
    /\ (LeadingToken.Kind = "NAME" /\ LeadingToken.Value \in DOMAIN KindOfKeyword) =>
         /\ Len(document.Definitions) >= 1
         /\ document.Definitions[1].Kind = KindOfKeyword[LeadingToken.Value]
         /\ document.Definitions[1].Name =
              IF FollowingToken.Kind = "NAME" THEN FollowingToken.Value ELSE <<>>

\* Parse has returned a named Mutation.
C12_Witness ==
  /\ fate = "returned"
  /\ LeadingToken.Value = mutation
  /\ Len(document.Definitions) = 1
  /\ document.Definitions[1].Kind = "Mutation"
  /\ document.Definitions[1].Name = Str(<<"F","o","o">>)

\* The variable definitions of the Document Parse returned.
RECURSIVE VariablesOf(_)
VariablesOf(ds) ==
  IF ds = <<>> THEN <<>> ELSE Head(ds).VariableDefinitions \o VariablesOf(Tail(ds))

ReturnedVariables == VariablesOf(document.Definitions)

\* The node a type reference's Type pointer leads to.
InnerType(t) == heap[t.Type]

\* C13: a `!` that follows a type gives a NonNull node whose inner type is
\* the type parsed just before the `!`, a Named or a List type of the same
\* name; the inner type of a NonNull node is never itself NonNull.
C13_NonNullWrapsParsedType ==
  fate = "returned" =>
    \A i \in 1..Len(ReturnedVariables) :
      LET t == ReturnedVariables[i].Type
      IN  (t.Kind = "NonNullType" /\ t.Value # <<>>) =>
            /\ t.Type # 0
            /\ InnerType(t).Kind \in {"NamedType", "ListType"}
            /\ InnerType(t).Value = t.Value

\* Following Type pointers from address a ends at nil within n steps.
RECURSIVE EndsWithin(_, _)
EndsWithin(a, n) ==
  \/ a = 0
  \/ n > 0 /\ EndsWithin(heap[a].Type, n - 1)

\* The parents of the node at address a: the type references of the returned
\* variable definitions and the nodes of the heap whose Type pointer is a.
ParentsOf(a) ==
  {<<"variable", i>> : i \in {j \in 1..Len(ReturnedVariables) :
                               ReturnedVariables[j].Type.Type = a}}
  \cup {<<"node", b>> : b \in {c \in 1..Len(heap) : heap[c].Type = a}}

\* The nodes the returned Document reaches through Type pointers.
RECURSIVE ReachableFrom(_, _)
ReachableFrom(as, n) ==
  IF n = 0 THEN as
  ELSE ReachableFrom(as \cup ({heap[a].Type : a \in as} \ {0}), n - 1)

DocumentNodes ==
  ReachableFrom({ReturnedVariables[i].Type.Type : i \in 1..Len(ReturnedVariables)} \ {0},
                Len(heap))

\* C14: a Document returned by Parse is a finite tree: following the Type
\* pointers from any type reference never comes back to a node already
\* visited, and no node has more than one parent.
C14_DocumentIsTree ==
  fate = "returned" =>
    /\ \A i \in 1..Len(ReturnedVariables) :
         EndsWithin(ReturnedVariables[i].Type.Type, Len(heap))
    /\ \A a \in DocumentNodes : Cardinality(ParentsOf(a)) <= 1

\* Where the parser calls skip: the kind it skips, and where the parser goes
\* on when skip returned true and when it returned false.
SkipKind ==
  ("parseDocument_loop" :> "EOF") @@ ("parseVariableDefinitions_loop" :> "PAREN_R")
  @@ ("parseSelectionSet" :> "EOF")

SkipTrue ==
  ("parseDocument_loop" :> "parseDocument_return")
  @@ ("parseVariableDefinitions_loop" :> "parseSelectionSet")
  @@ ("parseSelectionSet" :> "parseSelectionSet_return")

SkipFalse ==
  ("parseDocument_loop" :> "parseDefinition")
  @@ ("parseVariableDefinitions_loop" :> "parseVariableDefinition")
  @@ ("parseSelectionSet" :> "parseSelectionSet_next")

AtSkip == pc = "idle" /\ fate = "run" /\ ctl \in DOMAIN SkipKind

\* Where the parser only peeks before it decides how to go on.
AtPeekOnly == pc = "idle" /\ fate = "run" /\ ctl = "parseDefinition"

\* No call of Next is started and the lexer is left as it is.
LexerUntouched == pc' = "idle" /\ UNCHANGED <<source, currPos, Token>>

\* C15: peek never changes the lexer's cursor or current token; skip leaves
\* them unchanged and returns false when the current token's kind differs from
\* the kind asked for; it advances, and returns true, only when the kind
\* matches.
C15_PeekAndSkipFrame ==
  [][/\ AtPeekOnly => LexerUntouched
     /\ (AtSkip /\ Token.Kind # SkipKind[ctl]) =>
          LexerUntouched /\ ctl' = SkipFalse[ctl]
     /\ (AtSkip /\ Token.Kind = SkipKind[ctl]) =>
          pc' = "Next" /\ ctl' = SkipTrue[ctl]]_vars

\* skip(l, PAREN_R) has returned false in front of a variable definition.
C15_Witness ==
  /\ ctl = "parseVariableDefinition"
  /\ pc = "idle"
  /\ Token.Kind = "DOLLAR"
  /\ currPos > 0

\* C16: for every byte b, unhex(b) reports ok exactly when b is one of the
\* hexadecimal digits 0-9, a-f, A-F, and then returns the digit's value, a
\* number from 0 to 15; for every other byte it reports not ok.
C16_UnhexDigits ==
  ctl = "unhex_done" =>
    /\ unhexRet.ok <=> HexValue(unhexArg) >= 0
    /\ unhexRet.ok => unhexRet.v = HexValue(unhexArg) /\ unhexRet.v \in 0..15
    /\ unhexArg \in Ord("g")..Ord("z") => ~unhexRet.ok

\* unhex has been called with the capital F.
C16_Witness ==
  /\ ctl = "unhex_done"
  /\ unhexArg = 70
  /\ unhexRet = [v |-> 15, ok |-> TRUE]

\* The number grammar of the specification applied at offset pos of s: an
\* optional `-`, then 0 or a run of digits, then optionally `.` and a run of
\* digits, then optionally e or E, an optional sign and a run of digits (the
\* runs after `.` and after the exponent mark may be empty).  ok: a number
\* starts at pos; end: the offset of the first byte after it.
NumberAt(s, pos) ==
  LET at(i) == IF i <= Len(s) THEN s[i] ELSE 0
      i0 == IF at(pos + 1) = Ord("-") THEN pos + 2 ELSE pos + 1
      i1 == IF at(i0) = Ord("0") THEN i0 + 1 ELSE SkipDigits(s, i0)
      i2 == IF at(i1) = Ord(".") THEN SkipDigits(s, i1 + 1) ELSE i1
      hasExp == at(i2) \in {Ord("e"), Ord("E")}
      i3 == IF at(i2 + 1) \in {Ord("+"), Ord("-")} THEN i2 + 2 ELSE i2 + 1
      i4 == IF hasExp THEN SkipDigits(s, i3) ELSE i2
  IN  [ok |-> i1 > i0, end |-> i4 - 1]

\* A scan call has returned an Int or Float token for a number of the source.
NumberScanned ==
  /\ pc = "Next_assign"
  /\ token.Kind \in {"INT", "FLOAT"}
  /\ NumberAt(source, token.Pos).ok

\* C17: after a scan call that returns an Int or Float token, the token's
\* value is exactly the substring the number grammar matches and the cursor
\* is at the first byte after it: a character that follows the number is not
\* part of the value and is left for the next call.
C17_NumberTokenExtent ==
  NumberScanned =>
    /\ token.Value = Slice(source, token.Pos, NumberAt(source, token.Pos).end)
    /\ currPos = NumberAt(source, token.Pos).end

\* C18: every variable definition of a Document returned by Parse has a type
\* whose kind is Named, List or NonNull and whose type name is not empty: a
\* `:` that is followed by neither a Name nor `[` is rejected, it does not
\* give a definition with an empty type.
C18_VariableTypeNotEmpty ==
  fate = "returned" =>
    \A i \in 1..Len(ReturnedVariables) :
      /\ ReturnedVariables[i].Type.Kind \in {"NamedType", "ListType", "NonNullType"}
      /\ ReturnedVariables[i].Type.Value # <<>>

====
